---- MODULE Spec2Model ----
(***************************************************************************)
(* Model of vmware_to_virt.py: one run of main() over a VMware VM          *)
(* directory.  The directory listing, the output directory and the         *)
(* outcomes of the external tools (fdisk, file, qemu-img, cp) are the      *)
(* inputs; every blocking call of the run is one step.                     *)
(***************************************************************************)
EXTENDS Integers, Sequences, FiniteSets, TLC

\* Largest number of *.vmdk files in the input directory.
MaxFiles == 2

\* What a .vmdk file holds, as far as the classifier and the selector look:
\*   "flat"      neither token in the first 512 bytes
\*   "desc"      createType in the first 512 bytes, parentFileNameHint nowhere
\*   "desc_late" createType in the first 512 bytes, parentFileNameHint only
\*               after byte 512
\*   "snap"      parentFileNameHint in the first 512 bytes
Kinds == {"flat", "desc", "desc_late", "snap"}

\* Files of the input directory that are copied along (suffix not in
\* .vmdk/.vmx/.vmsd/.log); a .vmem file also counts as a suspend artifact.
AuxKinds == {"vmem"}

\* Outcome of the two reads of a .vmdk file: both succeed, the read of the
\* header (line 50) raises, or the read of the whole text (line 77) raises.
ReadOutcomes == {"ok", "fail_classify", "fail_select"}

VARIABLES
    vmdk_files,        \* input_dir.glob("*.vmdk"): sequence of Kinds, discovery order
    has_vmx,           \* input_dir.glob("*.vmx") is non-empty
    aux_files,         \* subset of AuxKinds present in the input directory
    out_exists,        \* output_dir.exists()
    out_leftover,      \* output_dir held files before the run
    out_created,       \* output_dir.mkdir ran in this run (line 454)
    leftover,          \* files k whose <stem>.qcow2 was in output_dir before the run
    copied,            \* auxiliary files copied into output_dir
    image,             \* image[k]: state of <stem of file k>.qcow2 in output_dir
    backup,            \* files k whose image has a .backup copy
    xml_written,       \* number of times <vm_name>.xml was written
    xml_config,        \* main: xml_config, the text generate_libvirt_xml returned
    xml_doc,           \* what <vm_name>.xml holds, <<>> while not written
    status,            \* the terminal message main printed (line 536), or "none"
    pc,                \* position of the run
    exit_status,       \* -1 while running, else the process exit status
    fatal,             \* which fatal error ended the run, or "none"
    vk,                \* loop index of validate_vmware_vm
    validation_errors, \* validate_vmware_vm: files with a validation error
    warnings,          \* validate_vmware_vm: kinds of warning collected
    bootable_disks,    \* validate_vmware_vm: count of disks with a table
    descriptor_files,  \* identify_disk_structure: first list returned
    data_files,        \* identify_disk_structure: second list returned
    conversion_targets,\* get_disk_conversion_targets: list returned
    read_errors,       \* files whose read raised (except at line 59 or 84)
    i,                 \* enumerate index of convert_disk_images (from 1)
    detected_format,   \* convert_disk_images: detected_format of target i
    attempts,          \* qemu-img convert calls made for target i: <<tag, ok>>
    verified,          \* value returned by the last verify_converted_disk
    verify_log,        \* tool outcomes seen while verifying target i
    disk_files,        \* self.disk_files
    checked,           \* targets handed to verify_converted_disk, in order
    unverified         \* targets for which verify_converted_disk returned False

vars == <<vmdk_files, has_vmx, aux_files, out_exists, out_leftover,
          out_created, leftover, copied,
          image, backup, xml_written, xml_config, xml_doc, status,
          pc, exit_status, fatal, vk,
          validation_errors, warnings, bootable_disks, descriptor_files,
          data_files, conversion_targets, read_errors, i, detected_format,
          attempts, verified, verify_log, disk_files, checked, unverified>>

dirVars == <<vmdk_files, has_vmx, aux_files>>
outVars == <<out_exists, out_leftover, out_created, leftover, copied, image,
            backup, xml_written, xml_config, xml_doc, status>>
docVars == <<xml_written, xml_config, xml_doc, status>>
validateVars == <<vk, validation_errors, warnings, bootable_disks>>
selectVars == <<descriptor_files, data_files, conversion_targets, read_errors>>
selectLocals == <<descriptor_files, data_files, read_errors>>
loopVars == <<i, detected_format, attempts, verified, verify_log, disk_files,
             checked, unverified>>
histVars == <<checked, unverified>>

NumFiles == Len(vmdk_files)
Files == 1..NumFiles

----------------------------------------------------------------------------
(* Pure helpers *)

\* 'createType' in header or 'parentFileNameHint' in header (line 54)
IsDescriptorHeader(kind) == kind \in {"desc", "desc_late", "snap"}

\* 'parentFileNameHint' in content, the whole text of the file (line 79)
HasParentHint(kind) == kind \in {"desc_late", "snap"}

\* 'parentFileNameHint' in the first 512 bytes
HasParentHintInHeader(kind) == kind = "snap"

RECURSIVE Filter(_, _)
\* the subsequence of s whose elements are in the set keep, order kept
Filter(s, keep) ==
    IF s = <<>> THEN <<>>
    ELSE IF Head(s) \in keep THEN <<Head(s)>> \o Filter(Tail(s), keep)
         ELSE Filter(Tail(s), keep)

Indices(n) == [k \in 1..n |-> k]

Range(s) == {s[k] : k \in DOMAIN s}

----------------------------------------------------------------------------
(* Disk classifier and target selector *)

RECURSIVE Reverse(_)
Reverse(s) == IF s = <<>> THEN <<>> ELSE Append(Reverse(Tail(s)), Head(s))

\* Variant of identify_disk_structure that puts each data file at the front
\* of data_files instead of the end.
IdentifyDiskStructureReversed(files, rd) ==
    LET desc == {k \in DOMAIN files :
                    rd[k] # "fail_classify" /\ IsDescriptorHeader(files[k])}
    IN  [descriptor_files |-> Filter(Indices(Len(files)), desc),
         data_files       |-> Reverse(Filter(Indices(Len(files)),
                                             DOMAIN files \ desc))]

\* identify_disk_structure: rd[k] is the outcome of reading file k.  A file
\* whose header cannot be read is a data file (lines 59-61).
IdentifyDiskStructure(files, rd) ==
    LET desc == {k \in DOMAIN files :
                    rd[k] # "fail_classify" /\ IsDescriptorHeader(files[k])}
    IN  [descriptor_files |-> Filter(Indices(Len(files)), desc),
         data_files       |-> Filter(Indices(Len(files)), DOMAIN files \ desc)]

\* Variant of get_disk_conversion_targets without the test of line 79.
GetDiskConversionTargetsNoSkip(files, rd) ==
    LET ids == IdentifyDiskStructure(files, rd)
    IN  IF ids.descriptor_files # <<>>
        THEN ids.descriptor_files
        ELSE ids.data_files

\* Variant of get_disk_conversion_targets that adds the data files to the
\* descriptors it kept.
GetDiskConversionTargetsMixed(files, rd) ==
    LET ids  == IdentifyDiskStructure(files, rd)
        kept == {k \in Range(ids.descriptor_files) :
                    rd[k] # "fail_select" /\ ~HasParentHint(files[k])}
    IN  Filter(ids.descriptor_files, kept) \o ids.data_files

\* get_disk_conversion_targets, lines 69-89: the list conversion_targets
\* before the emptiness test of line 91.
GetDiskConversionTargets(files, rd) ==
    LET ids  == IdentifyDiskStructure(files, rd)
        kept == {k \in Range(ids.descriptor_files) :
                    rd[k] # "fail_select" /\ ~HasParentHint(files[k])}
    IN  IF ids.descriptor_files # <<>>
        THEN Filter(ids.descriptor_files, kept)
        ELSE ids.data_files

----------------------------------------------------------------------------
(* The run *)

\* What output_dir holds under the name of file k's image when the run
\* starts: nothing, or the file an earlier run left there
InitialImage(k) == IF k \in leftover THEN "stale" ELSE "absent"

Init ==
    /\ vmdk_files \in UNION {[1..n -> Kinds] : n \in 0..MaxFiles}
    /\ has_vmx \in BOOLEAN
    /\ aux_files \in SUBSET AuxKinds
    /\ out_exists \in BOOLEAN
    /\ out_leftover \in BOOLEAN
    /\ out_leftover => out_exists
    /\ out_created = FALSE
    /\ leftover \in {{}, DOMAIN vmdk_files}
    /\ leftover # {} => out_leftover
    /\ copied = {}
    /\ image = [k \in DOMAIN vmdk_files |-> InitialImage(k)]
    /\ backup = {}
    /\ xml_written = 0
    /\ xml_config = <<>>
    /\ xml_doc = <<>>
    /\ status = "none"
    /\ pc = "start"
    /\ exit_status = -1
    /\ fatal = "none"
    /\ vk = 0
    /\ validation_errors = {}
    /\ warnings = {}
    /\ bootable_disks = 0
    /\ descriptor_files = <<>>
    /\ data_files = <<>>
    /\ conversion_targets = <<>>
    /\ read_errors = {}
    /\ i = 0
    /\ detected_format = "none"
    /\ attempts = <<>>
    /\ verified = FALSE
    /\ verify_log = <<>>
    /\ disk_files = <<>>
    /\ checked = <<>>
    /\ unverified = {}

\* sys.exit(1) of main, after the error named reason
Exit(reason) ==
    /\ pc' = "exit"
    /\ exit_status' = 1
    /\ fatal' = reason

\* validate_input (lines 18-34); click has already checked that input_dir
\* is an existing directory (line 477).
ValidateInput ==
    /\ pc = "start"
    /\ IF has_vmx
       THEN pc' = "validate" /\ UNCHANGED <<exit_status, fatal>>
       ELSE Exit("DiscoveryFailure")
    /\ UNCHANGED <<dirVars, outVars, validateVars, selectVars, loopVars>>

\* validate_vmware_vm, lines 96-115: the suspend artifacts
ValidateBegin ==
    /\ pc = "validate"
    /\ validation_errors' = {}
    /\ warnings' = aux_files \cap {"vmem", "vmss"}
    /\ bootable_disks' = 0
    /\ vk' = 1
    /\ pc' = IF NumFiles = 0 THEN "v_result" ELSE "v_fdisk"
    /\ UNCHANGED <<dirVars, outVars, selectVars, loopVars, exit_status, fatal>>

\* validate_vmware_vm, lines 117-145: one turn of the partition-table loop.
\* r is what fdisk -l and the descriptor test of lines 133-140 gave.
ValidateFdisk ==
    /\ pc = "v_fdisk"
    /\ \E r \in {"label", "nolabel_descriptor", "nolabel", "exc"} :
        /\ bootable_disks' = IF r = "label" THEN bootable_disks + 1
                             ELSE bootable_disks
        /\ validation_errors' = IF r = "nolabel" THEN validation_errors \cup {vk}
                                ELSE validation_errors
        /\ warnings' = IF r = "exc" THEN warnings \cup {"analyze"} ELSE warnings
    /\ IF vk = NumFiles
       THEN vk' = 1 /\ pc' = "v_sniff"
       ELSE vk' = vk + 1 /\ pc' = "v_fdisk"
    /\ UNCHANGED <<dirVars, outVars, selectVars, loopVars, exit_status, fatal>>

\* validate_vmware_vm, lines 148-163: one turn of the boot-signature loop.
\* r: file smaller than 1024 bytes, or what file -s gave.
ValidateSniff ==
    /\ pc = "v_sniff"
    /\ \E r \in {"small", "boot", "data", "other", "exc"} :
        warnings' = CASE r = "data" -> warnings \cup {"data"}
                      [] r = "exc"  -> warnings \cup {"signature"}
                      [] OTHER      -> warnings
    /\ IF vk = NumFiles
       THEN vk' = 1 /\ pc' = "v_result"
       ELSE vk' = vk + 1 /\ pc' = "v_sniff"
    /\ UNCHANGED <<dirVars, outVars, selectVars, loopVars, exit_status, fatal,
                   validation_errors, bootable_disks>>

\* Variant of the validation result in which a collected warning excuses
\* the validation errors.
ValidateResultUnlessWarned ==
    /\ pc = "v_result"
    /\ IF validation_errors # {} /\ warnings = {}
       THEN Exit("SourceNotBootable")
       ELSE pc' = "create_output" /\ UNCHANGED <<exit_status, fatal>>
    /\ UNCHANGED <<dirVars, outVars, validateVars, selectVars, loopVars>>

\* Variant of main that creates the output structure before it looks at
\* the validation result.
ValidateResultAfterCreate ==
    /\ pc = "v_result"
    /\ out_exists' = TRUE
    /\ out_created' = ~out_exists
    /\ copied' = aux_files
    /\ IF validation_errors # {}
       THEN Exit("SourceNotBootable")
       ELSE pc' = "create_output" /\ UNCHANGED <<exit_status, fatal>>
    /\ UNCHANGED <<dirVars, out_leftover, leftover, image, backup, docVars,
                   validateVars, selectVars, loopVars>>

\* validate_vmware_vm, lines 165-197, and main, lines 513-515
ValidateResult ==
    /\ pc = "v_result"
    /\ IF validation_errors # {}
       THEN Exit("SourceNotBootable")
       ELSE pc' = "create_output" /\ UNCHANGED <<exit_status, fatal>>
    /\ UNCHANGED <<dirVars, outVars, validateVars, selectVars, loopVars>>

\* create_output_structure (lines 450-474).  The locals of
\* validate_vmware_vm are gone by now.
CreateOutputStructure ==
    /\ pc = "create_output"
    /\ vk' = 0 /\ validation_errors' = {} /\ warnings' = {} /\ bootable_disks' = 0
    /\ \E mkdir_ok \in BOOLEAN, confirm \in BOOLEAN, copy_ok \in SUBSET aux_files :
        CASE ~out_exists /\ ~mkdir_ok ->
                /\ Exit("PermissionError")
                /\ UNCHANGED <<out_exists, out_created, copied>>
          [] out_exists /\ out_leftover /\ ~confirm ->
                /\ Exit("Aborted")
                /\ UNCHANGED <<out_exists, out_created, copied>>
          [] OTHER ->
                /\ out_exists' = TRUE
                /\ out_created' = ~out_exists
                /\ copied' = copy_ok
                /\ pc' = "convert_begin"
                /\ UNCHANGED <<exit_status, fatal>>
    /\ UNCHANGED <<dirVars, out_leftover, leftover, image, backup, docVars,
                   selectVars, loopVars>>

\* The files whose read raised: the header read of identify_disk_structure
\* (except at line 59) or, for a file of descriptor_files, the read of
\* get_disk_conversion_targets (except at line 84).
ReadErrors(files, rd) ==
    {k \in DOMAIN files : rd[k] = "fail_classify"}
        \cup {k \in Range(IdentifyDiskStructure(files, rd).descriptor_files) :
                    rd[k] = "fail_select"}

\* convert_disk_images, lines 199-215: the qemu-img check and the selection
ConvertBegin ==
    /\ pc = "convert_begin"
    /\ \E qemu_ok \in BOOLEAN, rd \in [Files -> ReadOutcomes] :
        LET ids == IdentifyDiskStructure(vmdk_files, rd)
            targets == GetDiskConversionTargets(vmdk_files, rd)
        IN  CASE ~qemu_ok ->
                    /\ Exit("ToolMissing")
                    /\ UNCHANGED <<selectVars, i>>
              [] qemu_ok /\ NumFiles = 0 ->
                    /\ Exit("DiscoveryFailure")
                    /\ UNCHANGED <<selectVars, i>>
              [] qemu_ok /\ NumFiles > 0 /\ targets = <<>> ->
                    /\ Exit("NoConvertibleDisks")
                    /\ descriptor_files' = ids.descriptor_files
                    /\ data_files' = ids.data_files
                    /\ conversion_targets' = targets
                    /\ read_errors' = ReadErrors(vmdk_files, rd)
                    /\ UNCHANGED i
              [] OTHER ->
                    /\ descriptor_files' = ids.descriptor_files
                    /\ data_files' = ids.data_files
                    /\ conversion_targets' = targets
                    /\ read_errors' = ReadErrors(vmdk_files, rd)
                    /\ i' = 1
                    /\ pc' = "query"
                    /\ UNCHANGED <<exit_status, fatal>>
    /\ UNCHANGED <<dirVars, outVars, validateVars, detected_format, attempts,
                   verified, verify_log, disk_files, histVars>>

\* The file being converted
Target == conversion_targets[i]

\* What qemu-img info can answer (lines 222-229): the tool fails, its output
\* is not JSON, the JSON has no "format" member, or the member names vmdk,
\* raw, another format qemu-img converts from (qcow2), or no format at all
\* (garbled)
FormatHints == {"tool_failed", "bad_json", "missing", "vmdk", "raw", "qcow2",
                "garbled"}

\* info.get('format', 'vmdk') (line 230); hint is the "format" member of
\* the JSON that qemu-img info printed, "missing" when it has none.
DetectedFormat(hint) == IF hint = "missing" THEN "vmdk" ELSE hint

\* Variant of the first conversion that always passes the detected format.
FirstTagAsDetected(fmt) == fmt

\* The -f argument of the first qemu-img convert (lines 235-241, 260-263)
FirstTag(fmt) == IF fmt = "raw" THEN "vmdk" ELSE fmt

\* Whether a failed first qemu-img convert is retried (lines 235, 247-256)
HasFallback(fmt) == fmt = "raw"

\* The -f argument of the retry (line 252)
FallbackTag == "raw"

\* Variant of the conversion's effect in which an output file that is already
\* there is kept as it is.
AfterConvertKeepExisting(old, ok) ==
    IF ok THEN (IF old = "absent" THEN {"complete"} ELSE {old})
    ELSE {old, "partial"}

\* The image file after a qemu-img convert: rewritten when the tool
\* succeeds; after a failure it is as before or holds what the tool wrote.
AfterConvert(old, ok) == IF ok THEN {"complete"} ELSE {old, "partial"}

\* convert_disk_images, lines 217-232: qemu-img info on target i.  Of the
\* selection only conversion_targets is still alive (line 213).
QueryFormat ==
    /\ pc = "query"
    /\ descriptor_files' = <<>> /\ data_files' = <<>> /\ read_errors' = {}
    /\ \E hint \in FormatHints :
        CASE hint = "tool_failed" ->
                /\ Exit("ConversionFailed")
                /\ UNCHANGED <<detected_format, attempts>>
          [] hint = "bad_json" ->
                /\ Exit("Unexpected")
                /\ UNCHANGED <<detected_format, attempts>>
          [] OTHER ->
                /\ detected_format' = DetectedFormat(hint)
                /\ attempts' = <<>>
                /\ pc' = "convert"
                /\ UNCHANGED <<exit_status, fatal>>
    /\ UNCHANGED <<dirVars, outVars, validateVars, conversion_targets, i,
                   verified, verify_log, disk_files, histVars>>

\* Variant of the first conversion in which a failure without fallback is
\* swallowed and the loop carries on with the target.
ConvertFirstSwallow ==
    /\ pc = "convert"
    /\ \E ok \in BOOLEAN :
        /\ attempts' = Append(attempts, <<FirstTag(detected_format), ok>>)
        /\ image' \in {[image EXCEPT ![Target] = st] :
                          st \in AfterConvert(image[Target], ok)}
        /\ IF ok \/ ~HasFallback(detected_format)
           THEN pc' = "verify"
           ELSE pc' = "convert_raw"
    /\ UNCHANGED <<dirVars, out_exists, out_leftover, out_created, leftover,
                   copied, backup, docVars, histVars, validateVars, selectVars, i,
                   detected_format, verified, verify_log, disk_files,
                   exit_status, fatal>>

\* Variant of the first conversion that moves on without calling
\* verify_converted_disk.
ConvertFirstUnverified ==
    /\ pc = "convert"
    /\ \E ok \in BOOLEAN :
        /\ attempts' = Append(attempts, <<FirstTag(detected_format), ok>>)
        /\ image' \in {[image EXCEPT ![Target] = st] :
                          st \in AfterConvert(image[Target], ok)}
        /\ IF ok
           THEN pc' = "record" /\ UNCHANGED <<exit_status, fatal>>
           ELSE IF HasFallback(detected_format)
                THEN pc' = "convert_raw" /\ UNCHANGED <<exit_status, fatal>>
                ELSE Exit("ConversionFailed")
    /\ UNCHANGED <<dirVars, out_exists, out_leftover, out_created, leftover,
                   copied, backup, docVars, histVars, validateVars, selectVars, i,
                   detected_format, verified, verify_log, disk_files>>

\* convert_disk_images, lines 235-246 and 260-267: the first qemu-img
\* convert of target i; CalledProcessError is caught at line 247 for a raw
\* source and at line 275 otherwise.
ConvertFirst ==
    /\ pc = "convert"
    /\ \E ok \in BOOLEAN :
        /\ attempts' = Append(attempts, <<FirstTag(detected_format), ok>>)
        /\ image' \in {[image EXCEPT ![Target] = st] :
                          st \in AfterConvert(image[Target], ok)}
        /\ IF ok
           THEN pc' = "verify" /\ UNCHANGED <<exit_status, fatal>>
           ELSE IF HasFallback(detected_format)
                THEN pc' = "convert_raw" /\ UNCHANGED <<exit_status, fatal>>
                ELSE Exit("ConversionFailed")
    /\ UNCHANGED <<dirVars, out_exists, out_leftover, out_created, leftover,
                   copied, backup, docVars, histVars, validateVars, selectVars, i,
                   detected_format, verified, verify_log, disk_files>>

\* Variant of the retry that is itself retried once more when it fails.
ConvertRawFallbackAgain ==
    /\ pc = "convert_raw"
    /\ \E ok \in BOOLEAN :
        /\ attempts' = Append(attempts, <<FallbackTag, ok>>)
        /\ image' \in {[image EXCEPT ![Target] = st] :
                          st \in AfterConvert(image[Target], ok)}
        /\ IF ok
           THEN pc' = "verify" /\ UNCHANGED <<exit_status, fatal>>
           ELSE IF Len(attempts) < 2
                THEN pc' = "convert_raw" /\ UNCHANGED <<exit_status, fatal>>
                ELSE Exit("ConversionFailed")
    /\ UNCHANGED <<dirVars, out_exists, out_leftover, out_created, leftover,
                   copied, backup, docVars, histVars, validateVars, selectVars, i,
                   detected_format, verified, verify_log, disk_files>>

\* convert_disk_images, lines 247-259: the retry tagged raw
ConvertRawFallback ==
    /\ pc = "convert_raw"
    /\ \E ok \in BOOLEAN :
        /\ attempts' = Append(attempts, <<FallbackTag, ok>>)
        /\ image' \in {[image EXCEPT ![Target] = st] :
                          st \in AfterConvert(image[Target], ok)}
        /\ IF ok
           THEN pc' = "verify" /\ UNCHANGED <<exit_status, fatal>>
           ELSE Exit("ConversionFailed")
    /\ UNCHANGED <<dirVars, out_exists, out_leftover, out_created, leftover,
                   copied, backup, docVars, histVars, validateVars, selectVars, i,
                   detected_format, verified, verify_log, disk_files>>

\* verify_converted_disk (lines 279-296): fdisk -l on the converted image
VerifyFdisk ==
    /\ pc = "verify"
    /\ \E r \in {"label", "nolabel", "exc"} :
        /\ verify_log' = <<r>>
        /\ CASE r = "label"   -> verified' = TRUE /\ pc' = "record"
             [] r = "exc"     -> verified' = FALSE /\ pc' = "record"
             [] r = "nolabel" -> verified' = verified /\ pc' = "fix_sniff"
        /\ unverified' = IF r = "exc" THEN unverified \cup {Target}
                         ELSE unverified
    /\ checked' = Append(checked, Target)
    /\ UNCHANGED <<dirVars, outVars, validateVars, selectVars, i,
                   detected_format, attempts, disk_files, exit_status, fatal>>

\* Variant of the sniffing step that goes on to the backup whatever file -s
\* printed.
FixSniffAlwaysBackup ==
    /\ pc = "fix_sniff"
    /\ \E r \in {"dos", "other", "exc"} :
        /\ verify_log' = Append(verify_log, r)
        /\ pc' = "fix_backup" /\ verified' = verified
        /\ unverified' = unverified
    /\ UNCHANGED <<dirVars, outVars, validateVars, selectVars, i,
                   detected_format, attempts, disk_files, checked, exit_status,
                   fatal>>

\* attempt_boot_sector_fix, lines 298-311 and 337-344: file -s on the image
FixSniff ==
    /\ pc = "fix_sniff"
    /\ \E r \in {"dos", "other", "exc"} :
        /\ verify_log' = Append(verify_log, r)
        /\ IF r = "dos"
           THEN pc' = "fix_backup" /\ verified' = verified
                /\ unverified' = unverified
           ELSE pc' = "record" /\ verified' = FALSE
                /\ unverified' = unverified \cup {Target}
    /\ UNCHANGED <<dirVars, outVars, validateVars, selectVars, i,
                   detected_format, attempts, disk_files, checked, exit_status,
                   fatal>>

\* Variant of the backup step without the except of line 342: a failing cp
\* ends the run.
FixBackupUncaught ==
    /\ pc = "fix_backup"
    /\ \E cp_ok \in BOOLEAN :
        /\ backup' = IF cp_ok THEN backup \cup {Target} ELSE backup
        /\ verify_log' = Append(verify_log, IF cp_ok THEN "cp_ok" ELSE "cp_failed")
        /\ IF cp_ok
           THEN pc' = "record" /\ UNCHANGED <<exit_status, fatal>>
           ELSE Exit("Unexpected")
    /\ verified' = FALSE
    /\ unverified' = unverified \cup {Target}
    /\ UNCHANGED <<dirVars, out_exists, out_leftover, out_created, leftover,
                   copied, image, docVars, checked, validateVars, selectVars, i,
                   detected_format, attempts, disk_files>>

\* attempt_boot_sector_fix, lines 312-344: cp image image.backup, then the
\* testdisk script is written to /tmp and never run; every exception is
\* caught at line 342 and the function returns False.
FixBackup ==
    /\ pc = "fix_backup"
    /\ \E cp_ok \in BOOLEAN :
        /\ backup' = IF cp_ok THEN backup \cup {Target} ELSE backup
        /\ verify_log' = Append(verify_log, IF cp_ok THEN "cp_ok" ELSE "cp_failed")
    /\ verified' = FALSE
    /\ unverified' = unverified \cup {Target}
    /\ pc' = "record"
    /\ UNCHANGED <<dirVars, out_exists, out_leftover, out_created, leftover,
                   copied, image, docVars, checked, validateVars, selectVars, i,
                   detected_format, attempts, disk_files, exit_status, fatal>>

\* Variant of the end of a loop turn that records the image only when
\* verify_converted_disk returned True.
RecordOnlyVerified ==
    /\ pc = "record"
    /\ disk_files' = IF verified THEN Append(disk_files, Target) ELSE disk_files
    /\ IF i = Len(conversion_targets)
       THEN pc' = "generate" /\ i' = i
       ELSE pc' = "query" /\ i' = i + 1
    /\ detected_format' = "none"
    /\ attempts' = <<>>
    /\ verified' = FALSE
    /\ verify_log' = <<>>
    /\ UNCHANGED <<dirVars, outVars, validateVars, selectVars, histVars,
                   exit_status, fatal>>

\* Variant of the end of a loop turn that leaves the loop after the first
\* recorded target.
RecordThenGenerate ==
    /\ pc = "record"
    /\ disk_files' = Append(disk_files, Target)
    /\ pc' = "generate" /\ i' = i
    /\ detected_format' = "none"
    /\ attempts' = <<>>
    /\ verified' = FALSE
    /\ verify_log' = <<>>
    /\ UNCHANGED <<dirVars, outVars, validateVars, selectVars, histVars,
                   exit_status, fatal>>

\* convert_disk_images, lines 270-273: the value of verify_converted_disk
\* is dropped, the image is recorded, and the loop moves on.  Nothing reads
\* the locals of the finished turn again.
Record ==
    /\ pc = "record"
    /\ disk_files' = Append(disk_files, Target)
    /\ IF i = Len(conversion_targets)
       THEN pc' = "generate" /\ i' = i
       ELSE pc' = "query" /\ i' = i + 1
    /\ detected_format' = "none"
    /\ attempts' = <<>>
    /\ verified' = FALSE
    /\ verify_log' = <<>>
    /\ UNCHANGED <<dirVars, outVars, validateVars, selectVars, histVars,
                   exit_status, fatal>>

\* ---------------------------------------------------------------------
\* generate_libvirt_xml, lines 370-448
\* ---------------------------------------------------------------------
\* self.vm_name, the stem of the first .vmx file (line 33)
VmName == "vm"

\* what uuid.uuid4() can return (line 437)
UUIDs == {"uuid_1", "uuid_2"}

\* parse_vmx_config, lines 346-368: the two keys generate_libvirt_xml reads
\* ("absent": the .vmx has no such line; "lots": a value int() rejects)
VmxConfigs == {[memsize |-> "absent", numvcpus |-> "absent"],
               [memsize |-> "2048",   numvcpus |-> "2"],
               [memsize |-> "lots",   numvcpus |-> "2"]}

\* dict.get(key, default), lines 434 and 436
Get(config, key, default) == IF config[key] = "absent" THEN default ELSE config[key]

\* int(...) of line 434 accepts these strings and raises ValueError on others
IsInt(str) == str \in {"1024", "2048"}
ParseInt(str) == IF str = "1024" THEN 1024 ELSE 2048

\* chr(n) for the lower-case letters (line 429)
Letters == <<"a", "b", "c", "d", "e", "f", "g", "h", "i", "j", "k", "l", "m",
             "n", "o", "p", "q", "r", "s", "t", "u", "v", "w", "x", "y", "z">>
Chr(n) == Letters[n - 96]

\* output_dir / f"{vmdk.stem}.qcow2" (line 215) for file k, and Path.resolve()
\* (line 421)
OutputPath(k) == [dir |-> "output_dir", stem |-> k, suffix |-> ".qcow2"]
Resolve(path) == [path EXCEPT !.dir = "/abs/output_dir"]

\* Variant of the disk elements that names the devices from chr(97 + i + 1) on.
DiskXmlFromB(disks) ==
    [j \in 1..Len(disks) |->
        [source |-> Resolve(OutputPath(disks[j])),
         dev    |-> [prefix |-> "hd", letter |-> Chr(97 + j)],
         bus    |-> "ide",
         driver |-> "qcow2"]]

\* lines 418-431: one <disk> element per entry of self.disk_files; enumerate
\* counts from 0 and sequences here from 1
DiskXml(disks) ==
    [j \in 1..Len(disks) |->
        [source |-> Resolve(OutputPath(disks[j])),
         dev    |-> [prefix |-> "hd", letter |-> Chr(97 + (j - 1))],
         bus    |-> "ide",
         driver |-> "qcow2"]]

\* Variant of the template filling that puts the fresh uuid into the name too.
GenerateLibvirtXmlUuidInName(vm_name, vmx_config, disks, vm_uuid) ==
    [name          |-> vm_uuid,
     uuid          |-> vm_uuid,
     memory        |-> ParseInt(Get(vmx_config, "memsize", "1024")) * 1024,
     currentMemory |-> ParseInt(Get(vmx_config, "memsize", "1024")) * 1024,
     vcpu          |-> Get(vmx_config, "numvcpus", "1"),
     disks         |-> DiskXml(disks)]

\* lines 434-446: the filled template
GenerateLibvirtXml(vm_name, vmx_config, disks, vm_uuid) ==
    [name          |-> vm_name,
     uuid          |-> vm_uuid,
     memory        |-> ParseInt(Get(vmx_config, "memsize", "1024")) * 1024,
     currentMemory |-> ParseInt(Get(vmx_config, "memsize", "1024")) * 1024,
     vcpu          |-> Get(vmx_config, "numvcpus", "1"),
     disks         |-> DiskXml(disks)]

\* The environment: one converted image is removed from output_dir by someone
\* else before generate_libvirt_xml looks for it (the case of lines 422-423)
EnvRemoveImage ==
    /\ pc = "generate"
    /\ \A k \in Range(disk_files) : image[k] # "absent"
    /\ \E k \in Range(disk_files) :
        image' = [image EXCEPT ![k] = "absent"]
    /\ UNCHANGED <<dirVars, out_exists, out_leftover, out_created, leftover,
                   copied, backup, docVars, validateVars, selectVars, loopVars,
                   pc, exit_status, fatal>>

\* Variant of the generation step without the exists() test of line 422.
GenerateXmlUnchecked ==
    /\ pc = "generate"
    /\ \E vmx_config \in VmxConfigs, vm_uuid \in UUIDs :
        IF ~IsInt(Get(vmx_config, "memsize", "1024"))
        THEN Exit("Unexpected") /\ xml_config' = xml_config
        ELSE /\ xml_config' = <<GenerateLibvirtXml(VmName, vmx_config,
                                                   disk_files, vm_uuid)>>
             /\ pc' = "write_xml"
             /\ UNCHANGED <<exit_status, fatal>>
    /\ UNCHANGED <<dirVars, out_exists, out_leftover, out_created, leftover,
                   copied, image, backup, xml_written, xml_doc, status,
                   validateVars, selectVars, loopVars>>

\* main, lines 525-529: parse_vmx_config, then generate_libvirt_xml; a missing
\* image raises FileNotFoundError (line 423) before int(memsize) can raise
\* ValueError (line 434)
GenerateXml ==
    /\ pc = "generate"
    /\ \E vmx_config \in VmxConfigs, vm_uuid \in UUIDs :
        CASE \E k \in Range(disk_files) : image[k] = "absent" ->
                Exit("DiskPathMissing") /\ xml_config' = xml_config
          [] (\A k \in Range(disk_files) : image[k] # "absent")
             /\ ~IsInt(Get(vmx_config, "memsize", "1024")) ->
                Exit("Unexpected") /\ xml_config' = xml_config
          [] OTHER ->
                /\ xml_config' = <<GenerateLibvirtXml(VmName, vmx_config,
                                                      disk_files, vm_uuid)>>
                /\ pc' = "write_xml"
                /\ UNCHANGED <<exit_status, fatal>>
    /\ UNCHANGED <<dirVars, out_exists, out_leftover, out_created, leftover,
                   copied, image, backup, xml_written, xml_doc, status,
                   validateVars, selectVars, loopVars>>

\* main, lines 531-543: the descriptor is written, the success message is
\* printed and the run ends with status 0
WriteXml ==
    /\ pc = "write_xml"
    /\ xml_written' = xml_written + 1
    /\ xml_doc' = xml_config
    /\ status' = "Conversion completed successfully!"
    /\ pc' = "done"
    /\ exit_status' = 0
    /\ UNCHANGED <<dirVars, out_exists, out_leftover, out_created, leftover,
                   copied, image, backup, xml_config, validateVars, selectVars,
                   loopVars, fatal>>

Next ==
    \/ ValidateInput
    \/ ValidateBegin
    \/ ValidateFdisk
    \/ ValidateSniff
    \/ ValidateResult
    \/ CreateOutputStructure
    \/ ConvertBegin
    \/ QueryFormat
    \/ ConvertFirst
    \/ ConvertRawFallback
    \/ VerifyFdisk
    \/ FixSniff
    \/ FixBackup
    \/ Record
    \/ EnvRemoveImage
    \/ GenerateXml
    \/ WriteXml

Spec == Init /\ [][Next]_vars

\* The runs over input directories without auxiliary files: nothing is copied
\* by create_output_structure (the loop of lines 465-472 has no turn).
InitNoAux == Init /\ aux_files = {}

\* Every external tool that is invoked returns, and the code between two
\* invocations runs through: a step that can be taken is taken.
LiveSpec == InitNoAux /\ [][Next]_vars /\ WF_vars(Next)

----------------------------------------------------------------------------
(* Properties *)

\* get_disk_conversion_targets has returned or raised at line 92
SelectionDone == descriptor_files # <<>> \/ data_files # <<>>

\* The header of file k was read at line 51
HeaderRead(k) == ~(k \in read_errors /\ k \in Range(data_files))

\* The descriptors whose text does not hold parentFileNameHint
NonSnapshotDescriptors ==
    Filter(descriptor_files, {k \in Files : ~HasParentHint(vmdk_files[k])})

\* Target i has been converted and is being verified or recorded
Converted == pc \in {"verify", "fix_sniff", "fix_backup", "record"}

\* C1: for a target whose detected format is raw, the first qemu-img
\* convert is tagged vmdk and a convert tagged raw is only ever the second
\* one, right after a failed vmdk one; a raw-tagged convert never happens for
\* another detected format; and a target converted after its vmdk attempt
\* failed was converted by exactly two attempts, vmdk then raw.
C1_VmdkBeforeRaw ==
    /\ \A j \in DOMAIN attempts :
          attempts[j][1] = "raw" =>
              /\ detected_format = "raw"
              /\ j = 2
              /\ attempts[1] = <<"vmdk", FALSE>>
    /\ detected_format = "raw" =>
          /\ Len(attempts) <= 2
          /\ Len(attempts) >= 1 => attempts[1][1] = "vmdk"
          /\ Len(attempts) = 2 => attempts[2][1] = "raw"
          /\ (Converted /\ ~attempts[1][2]) =>
                /\ attempts = << <<"vmdk", FALSE>>, <<"raw", TRUE>> >>
                /\ image[Target] = "complete"

\* a raw source that only the raw strategy converted
C1_Witness ==
    /\ pc = "verify"
    /\ detected_format = "raw"
    /\ attempts = << <<"vmdk", FALSE>>, <<"raw", TRUE>> >>
    /\ image[Target] = "complete"

\* C2: a .vmdk file whose header, as read at line 51, holds
\* parentFileNameHint is classified with the descriptors and is never one of
\* the conversion targets, whatever else the directory holds.
C2_SnapshotNeverTarget ==
    SelectionDone =>
        \A k \in Files :
            (HasParentHintInHeader(vmdk_files[k]) /\ HeaderRead(k)) =>
                /\ k \in Range(descriptor_files)
                /\ k \notin Range(conversion_targets)

\* a snapshot descriptor was read next to a descriptor that was selected
C2_Witness ==
    /\ pc = "query"
    /\ conversion_targets # <<>>
    /\ \E k \in Files :
          /\ HasParentHintInHeader(vmdk_files[k])
          /\ k \notin read_errors
          /\ k \in Range(descriptor_files)

\* C3: when the directory holds a non-snapshot descriptor and a data file
\* (and the text of every descriptor could be read), the targets are exactly
\* the non-snapshot descriptors, in discovery order, and no data file; one
\* descriptor next to one data file gives exactly one target.
C3_DescriptorsOnly ==
    (/\ SelectionDone
     /\ NonSnapshotDescriptors # <<>>
     /\ data_files # <<>>
     /\ read_errors \cap Range(descriptor_files) = {}) =>
        /\ conversion_targets = NonSnapshotDescriptors
        /\ Range(conversion_targets) \cap Range(data_files) = {}
        /\ (Len(descriptor_files) = 1 /\ Len(data_files) = 1) =>
              Len(conversion_targets) = 1

\* disk.vmdk (createType) next to disk-flat.vmdk: one target, the descriptor
C3_Witness ==
    /\ pc = "query"
    /\ NumFiles = 2
    /\ read_errors = {}
    /\ \E d, f \in Files :
          /\ vmdk_files[d] = "desc"
          /\ vmdk_files[f] = "flat"
          /\ conversion_targets = <<d>>

\* C4: whenever there is no non-snapshot descriptor the targets are all the
\* data files, and the selector fails only if there is neither a
\* non-snapshot descriptor nor a data file; a directory of snapshot
\* descriptors and flat files selects the flat files.  (Stated for runs in
\* which every read succeeded and for directories whose descriptors all
\* hold parentFileNameHint in the header.)
C4_FlatFallback ==
    (/\ SelectionDone
     /\ read_errors = {}
     /\ \A k \in Files : vmdk_files[k] \in {"flat", "snap"}) =>
        /\ conversion_targets = data_files
        /\ fatal = "NoConvertibleDisks" => data_files = <<>>

\* C5: when no file is classified as a descriptor, the targets are all the
\* .vmdk files in discovery order: the result is a function of the
\* directory listing alone, so a second run over the same listing returns
\* the same sequence.
C5_FlatOnlyInOrder ==
    (SelectionDone /\ descriptor_files = <<>>) =>
        /\ conversion_targets = Indices(NumFiles)
        /\ data_files = Indices(NumFiles)
        /\ fatal # "NoConvertibleDisks"

\* a directory of flat files only, more than one, all selected
C5_Witness ==
    /\ pc = "query"
    /\ NumFiles >= 2
    /\ \A k \in Files : vmdk_files[k] = "flat"
    /\ conversion_targets = Indices(NumFiles)

\* validate_vmware_vm has returned and main has acted on its value
ValidationDecided ==
    pc = "create_output" \/ (pc = "exit" /\ fatal = "SourceNotBootable")

\* main ended the run at line 515
Aborted == pc = "exit" /\ fatal = "SourceNotBootable"

C7_AbortTouchesNothing ==
    Aborted =>
        /\ exit_status = 1
        /\ ~out_created
        /\ copied = {}
        /\ \A k \in Files : image[k] = InitialImage(k)
        /\ backup = {}
        /\ xml_written = 0
        /\ ~SelectionDone
        /\ i = 0 /\ attempts = <<>> /\ detected_format = "none"
        /\ disk_files = <<>>

\* an aborted run whose output directory is still missing and whose input
\* directory holds a file that create_output_structure would have copied
C7_Witness ==
    /\ Aborted
    /\ ~out_exists
    /\ aux_files # {}

\* C8: when the input directory holds no .vmdk file and the run fails with
\* DiscoveryFailure, no output directory has been created and nothing has
\* been copied into it.
C8_DiscoveryFailureBeforeOutput ==
    (NumFiles = 0 /\ pc = "exit" /\ fatal = "DiscoveryFailure") =>
        /\ exit_status = 1
        /\ ~out_created
        /\ copied = {}

\* The conversion of target i has failed for good: the single attempt of a
\* non-raw format, or both attempts of a raw one
ConversionFailedOnTarget ==
    /\ attempts # <<>>
    /\ ~attempts[Len(attempts)][2]
    /\ detected_format = "raw" => Len(attempts) = 2

\* C9: a failed conversion of target i ends the run with a nonzero status:
\* no later target is touched, no descriptor is written, and the images of
\* the targets before i stay complete on disk.
C9_ConversionFailureIsFatal ==
    ConversionFailedOnTarget =>
        /\ pc = "exit" /\ fatal = "ConversionFailed" /\ exit_status = 1
        /\ ~ENABLED Next
        /\ xml_written = 0
        /\ disk_files = SubSeq(conversion_targets, 1, i - 1)
        /\ \A j \in 1..(i - 1) : image[conversion_targets[j]] = "complete"
        /\ \A j \in (i + 1)..Len(conversion_targets) :
              /\ image[conversion_targets[j]] =
                     InitialImage(conversion_targets[j])
              /\ conversion_targets[j] \notin backup
        /\ Target \notin backup

\* the second target failed both attempts; the first image is on disk
C9_Witness ==
    /\ pc = "exit"
    /\ fatal = "ConversionFailed"
    /\ i = 2
    /\ Len(attempts) = 2
    /\ image[conversion_targets[1]] = "complete"

\* C10: no step of verify_converted_disk or attempt_boot_sector_fix ends
\* the run, whatever fdisk, file and cp do; the target is then recorded and
\* the run goes on to the next target or to the descriptor.
C10_VerificationNeverAborts ==
    [][/\ pc \in {"verify", "fix_sniff", "fix_backup"} =>
            /\ pc' \in {"fix_sniff", "fix_backup", "record"}
            /\ exit_status' = -1
            /\ fatal' = "none"
       /\ pc = "record" =>
            /\ pc' = IF i = Len(conversion_targets) THEN "generate" ELSE "query"
            /\ disk_files' = Append(disk_files, conversion_targets[i])
            /\ exit_status' = -1]_vars

\* verification of a target returned after the backup copy failed
C10_Witness ==
    /\ pc = "record"
    /\ verify_log = <<"nolabel", "dos", "cp_failed">>
    /\ ~verified

\* C11 (the claim as made): a finished run whose verification failed for
\* some converted disk ends as "completed with warnings", and as plain success
\* only when every converted disk passed verification.
C11_WarningsWhenUnverified ==
    pc = "done" =>
        /\ unverified # {} => status = "Conversion completed with warnings"
        /\ status = "Conversion completed successfully!" => unverified = {}

\* verify_converted_disk is running or has just returned for target i
Verifying == pc \in {"verify", "fix_sniff", "fix_backup", "record"}

\* fdisk showed no partition table on the converted image and file -s then
\* named a DOS/MBR or Microsoft boot sector
NoTableThenDos ==
    /\ Len(verify_log) >= 2
    /\ verify_log[1] = "nolabel"
    /\ verify_log[2] = "dos"

ExpectedDevices == <<"hda", "hdb", "hdc", "hdd">>

\* device name of a <target dev=.../> as one of the strings above
DevName(dev) ==
    CHOOSE name \in Range(ExpectedDevices) \cup {"other"} :
        \/ /\ name = "other"
           /\ ~(dev.prefix = "hd" /\ dev.letter \in {"a", "b", "c", "d"})
        \/ /\ dev.prefix = "hd"
           /\ \/ dev.letter = "a" /\ name = "hda"
              \/ dev.letter = "b" /\ name = "hdb"
              \/ dev.letter = "c" /\ name = "hdc"
              \/ dev.letter = "d" /\ name = "hdd"

\* C13: the descriptor main generated or wrote has one disk entry per
\* conversion target, in selection order; the entry of the first target is
\* hda, of the second hdb, and so on, and each entry references the resolved
\* <stem>.qcow2 of its own target in the output directory.
C13_DiskEntriesInTargetOrder ==
    /\ pc = "write_xml" => Len(xml_config) = 1
    /\ pc = "done" => xml_doc = xml_config /\ Len(xml_doc) = 1
    /\ pc \in {"write_xml", "done"} =>
          LET disks == xml_config[1].disks
          IN  /\ Len(disks) = Len(conversion_targets)
              /\ \A j \in 1..Len(disks) :
                    /\ DevName(disks[j].dev) = ExpectedDevices[j]
                    /\ disks[j].source.stem = conversion_targets[j]
                    /\ disks[j].source.suffix = ".qcow2"
                    /\ disks[j].source.dir = "/abs/output_dir"

\* a written descriptor with two disks, hda for the first target and hdb for
\* the second
C13_Witness ==
    /\ pc = "done"
    /\ Len(xml_doc[1].disks) = 2
    /\ xml_doc[1].disks[1].dev.letter = "a"
    /\ xml_doc[1].disks[1].source.stem = conversion_targets[1]
    /\ xml_doc[1].disks[2].dev.letter = "b"
    /\ xml_doc[1].disks[2].source.stem = conversion_targets[2]

\* a recorded image is gone from the output directory
ImageMissing == \E k \in Range(disk_files) : image[k] = "absent"

\* C14: when a recorded image no longer exists as generate_libvirt_xml runs,
\* generation fails with DiskPathMissing and the run exits nonzero without
\* having generated or written any descriptor text; a descriptor is only ever
\* generated with every recorded image in place.
C14_MissingImageNoDescriptor ==
    /\ fatal = "DiskPathMissing" =>
          /\ pc = "exit" /\ exit_status = 1
          /\ ImageMissing
          /\ xml_config = <<>> /\ xml_doc = <<>> /\ xml_written = 0
          /\ status = "none"
    /\ (ImageMissing /\ pc # "generate") => fatal = "DiskPathMissing"
    /\ pc \in {"write_xml", "done"} => ~ImageMissing

\* two images were recorded, the second was removed, and generation failed
C14_Witness ==
    /\ pc = "exit"
    /\ fatal = "DiskPathMissing"
    /\ Len(disk_files) = 2
    /\ image[disk_files[1]] = "complete"
    /\ image[disk_files[2]] = "absent"

\* every .vmdk file can be read, at classification and at selection
AllReadable == [k \in Files |-> "ok"]

\* C15 (the claim as made): a .vmdk file that cannot be read only adds a
\* warning; a directory whose disks would be selected if every file could be
\* read is not turned away for want of targets because a read failed.
C15_UnreadableFileNeverFatal ==
    (pc = "exit" /\ fatal = "NoConvertibleDisks" /\ read_errors # {}) =>
        GetDiskConversionTargets(vmdk_files, AllReadable) = <<>>

InLoop == pc \in {"query", "convert", "convert_raw", "verify", "fix_sniff",
                  "fix_backup", "record"}

\* the first n conversion targets, in order
FirstTargets(n) == SubSeq(conversion_targets, 1, n)

\* C18: conversion and verification alternate target by target.  While
\* target i is queried or converted, exactly the targets before it have been
\* verified and recorded; a successful conversion of target i is followed at
\* once by its verification; when verification has returned, targets 1..i
\* have been verified; and through all of it no later target's image has
\* been written.
C18_ConvertVerifyAlternate ==
    /\ pc \in {"query", "convert", "convert_raw"} =>
          /\ checked = FirstTargets(i - 1)
          /\ disk_files = FirstTargets(i - 1)
    /\ (attempts # <<>> /\ attempts[Len(attempts)][2]) =>
          /\ Verifying
          /\ image[Target] = "complete"
    /\ pc = "verify" =>
          /\ attempts # <<>> /\ attempts[Len(attempts)][2]
          /\ checked = FirstTargets(i - 1)
    /\ pc \in {"fix_sniff", "fix_backup", "record"} =>
          /\ checked = FirstTargets(i)
          /\ disk_files = FirstTargets(i - 1)
    /\ InLoop =>
          \A j \in (i + 1)..Len(conversion_targets) :
              image[conversion_targets[j]] = InitialImage(conversion_targets[j])
    /\ pc \in {"generate", "write_xml", "done"} =>
          /\ checked = conversion_targets
          /\ disk_files = conversion_targets

\* the second target is about to be queried: the first has been converted,
\* verified (with a failing verdict) and recorded, the second is untouched
C18_Witness ==
    /\ pc = "query"
    /\ i = 2
    /\ checked = <<conversion_targets[1]>>
    /\ disk_files = <<conversion_targets[1]>>
    /\ conversion_targets[1] \in unverified
    /\ image[conversion_targets[1]] = "complete"
    /\ image[conversion_targets[2]] = "absent"

\* the format names the claim calls recognized
RecognizedFormats == {"vmdk", "raw", "qcow2"}

\* C19 (the claim as made): the source format used for a target is vmdk when
\* the hint is missing or names no recognized format, so it is always a
\* recognized one; every -f argument given to qemu-img convert is recognized,
\* and two attempts are made for a raw source only.
C19_UnrecognizedHintIsVmdk ==
    /\ detected_format # "none" => detected_format \in RecognizedFormats
    /\ \A a \in 1..Len(attempts) : attempts[a][1] \in RecognizedFormats
    /\ Len(attempts) = 2 => detected_format = "raw"

\* C20: whatever an earlier run left in the output directory, a successful
\* conversion leaves the target's image as this run wrote it; a finished run
\* has converted exactly the targets selected from the input directory, and
\* each of their images is complete, with or without leftover files.
C20_RerunRewritesImages ==
    /\ Verifying => image[Target] = "complete"
    /\ \A k \in Range(disk_files) :
          \/ image[k] = "complete"
          \/ image[k] = "absent" /\ pc \in {"generate", "exit"}
    /\ pc = "done" =>
          /\ disk_files = conversion_targets
          /\ \A k \in Range(conversion_targets) : image[k] = "complete"

\* a finished run over a directory with two targets whose images were both
\* already in the output directory when it started
C20_Witness ==
    /\ pc = "done"
    /\ out_leftover
    /\ Len(conversion_targets) = 2
    /\ Range(conversion_targets) \subseteq leftover
    /\ \A k \in Range(conversion_targets) : image[k] = "complete"

\* C21: the descriptor file is written at most once, and a run that has
\* written it is finished, with every conversion target converted, handed to
\* verify_converted_disk and recorded; a run that ended with a fatal error
\* has written no descriptor.
C21_DescriptorOnceAfterAllTargets ==
    /\ xml_written <= 1
    /\ xml_written = Len(xml_doc)
    /\ xml_written = 1 =>
          /\ pc = "done" /\ exit_status = 0
          /\ conversion_targets # <<>>
          /\ checked = conversion_targets
          /\ disk_files = conversion_targets
          /\ \A k \in Range(conversion_targets) : image[k] = "complete"
    /\ pc = "exit" => xml_written = 0 /\ xml_doc = <<>>

\* the descriptor has been written once, after two targets were converted
\* and verified
C21_Witness ==
    /\ pc = "done"
    /\ xml_written = 1
    /\ Len(conversion_targets) = 2
    /\ Len(checked) = 2

\* the targets converted successfully so far, in target order, while the
\* loop of convert_disk_images is at target i
ConvertedSoFar ==
    IF attempts # <<>> /\ attempts[Len(attempts)][2]
    THEN FirstTargets(i)
    ELSE FirstTargets(i - 1)

\* every disk that failed verification has a disk entry in the descriptor
UnverifiedReferenced(doc) ==
    \A k \in unverified :
        \E j \in 1..Len(doc.disks) : doc.disks[j].source.stem = k

\* C22 (the claim as made): at every point of the loop self.disk_files is
\* the list of the targets converted successfully so far, in target order;
\* verification verdicts do not matter, and the generated descriptor
\* references the disks that failed verification too.
C22_DiskFilesAreConvertedSoFar ==
    /\ InLoop => disk_files = ConvertedSoFar
    /\ pc \in {"generate", "write_xml", "done"} =>
          disk_files = conversion_targets
    /\ pc \in {"write_xml", "done"} => UnverifiedReferenced(xml_config[1])

\* C22 (amended): self.disk_files is the list of the targets converted
\* successfully so far at the head of every loop turn and after the loop;
\* while a target is being verified it is converted but not yet recorded, so
\* the list is one entry short until verify_converted_disk has returned.  It
\* is recorded then whatever the verdict, and the generated descriptor
\* references the disks that failed verification too.
C22_DiskFilesLagDuringVerification ==
    /\ pc \in {"query", "convert", "convert_raw"} =>
          /\ disk_files = FirstTargets(i - 1)
          /\ disk_files = ConvertedSoFar
          /\ unverified \subseteq Range(disk_files)
    /\ Verifying =>
          /\ disk_files = FirstTargets(i - 1)
          /\ ConvertedSoFar = Append(disk_files, Target)
          /\ unverified \subseteq Range(disk_files) \cup {Target}
    /\ InLoop => \A k \in Range(disk_files) : image[k] = "complete"
    /\ pc \in {"generate", "write_xml", "done"} =>
          /\ disk_files = conversion_targets
          /\ unverified \subseteq Range(disk_files)
    /\ pc \in {"write_xml", "done"} => UnverifiedReferenced(xml_config[1])

\* a written descriptor with two disks of which the first failed
\* verification and the second passed
C22_Witness ==
    /\ pc = "done"
    /\ Len(xml_doc[1].disks) = 2
    /\ unverified = {conversion_targets[1]}
    /\ xml_doc[1].disks[1].source.stem = conversion_targets[1]

\* the run has ended: in success, or in a fatal exit
Terminated ==
    \/ pc = "done" /\ exit_status = 0
    \/ pc = "exit" /\ exit_status = 1

\* no element occurs twice in the sequence
NoRepeats(seq) == \A a, b \in 1..Len(seq) : seq[a] = seq[b] => a = b

\* what has been issued for the target of the current loop turn: at most two
\* conversions, at most one partition-table probe, then at most one sniffer
\* probe, then at most one backup copy
TurnWithinBounds ==
    /\ Len(attempts) <= 2
    /\ Len(verify_log) <= 3
    /\ Len(verify_log) >= 1 => verify_log[1] \in {"label", "nolabel", "exc"}
    /\ Len(verify_log) >= 2 => verify_log[2] \in {"dos", "other", "exc"}
    /\ Len(verify_log) >= 3 => verify_log[3] \in {"cp_ok", "cp_failed"}
    /\ pc = "query" => attempts = <<>> /\ verify_log = <<>>
    /\ pc \in {"convert", "convert_raw"} => verify_log = <<>>

\* no target is taken up twice
NoTargetTwice ==
    /\ NoRepeats(conversion_targets)
    /\ NoRepeats(checked)
    /\ NoRepeats(disk_files)
    /\ InLoop => Target \notin Range(disk_files)
    /\ pc \in {"query", "convert", "convert_raw", "verify"} =>
          Target \notin Range(checked)

\* a step of the run: the format query of a turn is one step, never repeated
\* within the turn, and a turn begins with the next target
OneQueryPerTurn ==
    /\ pc = "query" => pc' # "query"
    /\ pc' = "query" => i' = i + 1
    /\ i' \in {i, i + 1}
    /\ pc' # "query" /\ pc' # "exit" => (i' = i \/ pc = "convert_begin")

\* C23: with every tool invocation returning, a run ends in success or in a
\* fatal exit; for every conversion target it has issued at most one format
\* query, two conversion attempts, one partition-table probe, one sniffer
\* probe and one backup copy, and it takes up no target twice.
C23_TerminatesWithinBounds ==
    /\ [](TurnWithinBounds /\ NoTargetTwice)
    /\ [][OneQueryPerTurn]_vars
    /\ <>Terminated
    /\ [](Terminated => ~ENABLED Next)

\* the second target's turn has used everything a turn can use: a failed and
\* a successful conversion, both probes and the backup copy
C23_Witness ==
    /\ pc = "record"
    /\ i = 2
    /\ Len(attempts) = 2
    /\ Len(verify_log) = 3
    /\ Target \in backup

====
